---- MODULE Spec2Model ----
(***************************************************************************)
(* The MongoDB connection lifecycle manager of boishakh-auth               *)
(* (src/src/lib/mongodb/index.ts): connect with retry, idempotent          *)
(* re-entry, disconnect, lifecycle observers, SIGINT handler and health    *)
(* check; and the config resolver of src/src/lib/mongodb/config.ts.        *)
(*                                                                         *)
(* Execution model: one JavaScript event loop.  An async function runs     *)
(* synchronously up to its first pending await; the reactions of a         *)
(* settled promise run in the microtask queue before any other task, so    *)
(* the settlement of a driver call and the continuations waiting on it     *)
(* form one step.  The mongoose driver is the environment: its calls       *)
(* (connect, disconnect, ping) complete in later steps with either         *)
(* outcome, and it emits lifecycle events when the handle changes state.   *)
(***************************************************************************)
EXTENDS Integers, Sequences, FiniteSets, TLC

\* ---------------------------------------------------------------- bounds
\* largest retryAttempts a caller configures
MaxRetry == 2
\* retry loops (attemptConnection calls) started in one behaviour
MaxLoops == 2
\* setupConnectionListeners calls in one behaviour
MaxListeners == 2
\* SIGINT signals delivered to the process in one behaviour
MaxSignals == 1
\* retryAttempts of the configs passed to connect() where a loop sleeps twice
MaxBackoffRetry == 3
\* readings of process.uptime() told apart
MaxUptime == 2
\* error ids told apart
MaxErrorIds == 2

\* concurrent callers (async tasks of the single event loop)
Procs == {"p1", "p2"}
\* root-cause messages of a failing driver call
ErrMsgs == {"ECONNREFUSED", "ETIMEDOUT"}

\* ------------------------------------------------------- program constants
\* mongoose.connection.readyState codes the code compares with
STATE_disconnected == 0
STATE_connected == 1
\* the argument of process.exit, index.ts:237 and 244
EXIT_success == 0
EXIT_failure == 1
\* the remaining codes of the handle: 2 connecting, 3 disconnecting
ReadyStates == 0..3

VARIABLES
  isConnected,        \* module flag, index.ts:59
  isConnecting,       \* module flag, index.ts:60
  connectionPromise,  \* 0 (null) or the id of the retry loop whose promise it holds
  readyState,         \* mongoose.connection.readyState
  lost,               \* driver lost a live connection and may regain it by itself
  listeners,          \* number of registered observer sets (setupConnectionListeners calls)
  loops,              \* the attemptConnection activations started so far
  pc,                 \* position of each caller
  call,               \* the call a caller is in, or the result of its last call
  quiet,              \* history: a disconnect() completed and no connect() was called since
  shutdown,           \* the SIGINT handlers' disconnects and the exit of the process
  env,                \* process.env: each variable is <<>> (unset) or <<value>>
  resolved,           \* what the last call of the config resolver returned
  reply,              \* what the last route, handler or read of the server returned
  models              \* names of the models registered on the handle

vars == <<isConnected, isConnecting, connectionPromise, readyState, lost,
          listeners, loops, pc, call, quiet, shutdown, env, resolved, reply, models>>

mgr == <<isConnected, isConnecting, connectionPromise>>

\* ------------------------------------------------------------ call records
NoCall == [op |-> "none", st |-> "none", loop |-> 0, starter |-> FALSE,
           n |-> 0, key |-> "none", msg |-> "none", seen |-> FALSE]

LoopIds == 1..Len(loops)

\* a promise is pending while its loop is trying or sleeping
Running(l) == loops[l].phase \in {"connecting", "sleeping"}

InFlight == {l \in LoopIds : Running(l)}

DriverConnectPending == \E l \in LoopIds : loops[l].phase = "connecting"

\* signals: SIGINTs delivered; calls: disconnect() calls made by the SIGINT
\* handlers; closing: handlers awaiting mongoose.disconnect; exited/status:
\* process.exit was called with that status
NoShutdown == [signals |-> 0, calls |-> 0, closing |-> 0, exited |-> FALSE,
               status |-> EXIT_success]

\* the process has not exited
Alive == ~shutdown.exited

\* a step of the connection manager in the running process: the SIGINT
\* handlers and the environment are not involved
ManagerStep == Alive /\ UNCHANGED <<shutdown, env, resolved, reply, models>>

\* a close of the handle has been requested and has not settled
ClosePending == (\E p \in Procs : pc[p] = "closing") \/ shutdown.closing > 0

\* ---------------------------------------------- config resolver (config.ts)
\* a ?? b on an environment variable, with <<>> for undefined
Nullish(v, d) == IF v = <<>> THEN d ELSE v[1]

\* a ?? b between two environment variables
NullishVar(v, w) == IF v = <<>> THEN w ELSE v

\* no environment variable is set
NoEnv == [NODE_ENV |-> <<>>, MONGODB_URI |-> <<>>, MONGODB_DATABASE |-> <<>>,
          MONGODB_TEST_DATABASE |-> <<>>, MONGODB_USERNAME |-> <<>>,
          MONGODB_PASSWORD |-> <<>>]

\* the values each variable takes.  A URI is the sequence of its pieces, a
\* '/' at its end being a piece of its own; "" is a variable set to the
\* empty string
EnvValues ==
  [NODE_ENV |-> {<<>>, <<"production">>, <<"testing">>, <<"development">>,
                 <<"staging">>},
   MONGODB_URI |-> {<<>>, << <<"mongodb://db:27017">> >>,
                    << <<"mongodb://db:27017", "/">> >>},
   MONGODB_DATABASE |-> {<<>>, <<"app">>, <<"auth">>},
   MONGODB_TEST_DATABASE |-> {<<>>, <<"app_ci">>},
   MONGODB_USERNAME |-> {<<>>, <<"">>, <<"user">>},
   MONGODB_PASSWORD |-> {<<>>, <<"">>, <<"secret">>}]

EnvNames == DOMAIN EnvValues

\* no config has been resolved yet
NoConfig == [uri |-> <<>>, database |-> "", username |-> <<>>, password |-> <<>>,
             retryAttempts |-> 0, retryDelayMs |-> 0]

\* baseConfig, config.ts:65-72
baseConfig(e) ==
  [uri |-> Nullish(e.MONGODB_URI, <<"mongodb://localhost:27017">>),
   database |-> Nullish(e.MONGODB_DATABASE, "boishakh_auth"),
   username |-> e.MONGODB_USERNAME,
   password |-> e.MONGODB_PASSWORD,
   retryAttempts |-> 3,
   retryDelayMs |-> 1000]

\* slip: the suffix is applied to the configured base name as well
TestDatabase_suffixAlways(e) ==
  Nullish(e.MONGODB_TEST_DATABASE, baseConfig(e).database \o "_test")

\* the database of testing mode, config.ts:85-88
TestDatabase(e) ==
  Nullish(NullishVar(e.MONGODB_TEST_DATABASE, e.MONGODB_DATABASE),
          baseConfig(e).database \o "_test")

\* slip: the first result is kept and returned by every later call
getConfigFromFile_memoized(e) ==
  IF resolved # NoConfig THEN resolved ELSE baseConfig(e)

\* getMongoDBConfig of config.ts (imported as getConfigFromFile), config.ts:62-97
getConfigFromFile(e) ==
  LET environment == Nullish(e.NODE_ENV, "development") IN
  IF environment = "production"
    THEN [baseConfig(e) EXCEPT !.retryAttempts = 5, !.retryDelayMs = 2000]
    ELSE IF environment = "testing"
      THEN [baseConfig(e) EXCEPT !.database = TestDatabase(e),
                                 !.retryAttempts = 1, !.retryDelayMs = 500]
      ELSE baseConfig(e)

\* ------------------------------------- getMongoDBConfig (index.ts:22-56)
\* defaultOptions, index.ts:14-19
defaultOptions == [maxPoolSize |-> 10, serverSelectionTimeoutMS |-> 5000,
                   socketTimeoutMS |-> 45000, family |-> 4]

\* baseUri.endsWith('/'), index.ts:30
EndsWithSlash(u) == Len(u) > 0 /\ u[Len(u)] = "/"

\* slip: the '/' is added whatever the end of the base URI
JoinUri_slashAlways(baseUri, dbName) == baseUri \o <<"/", dbName>>

\* the URI with the database name, index.ts:30-32
JoinUri(baseUri, dbName) ==
  IF EndsWithSlash(baseUri) THEN baseUri \o <<dbName>>
                            ELSE baseUri \o <<"/", dbName>>

\* slip: a variable set to "" is taken as a credential
Truthy_isSet(v) == v # <<>>

\* a value of the environment that JavaScript takes as true: set and not ""
Truthy(v) == v # <<>> /\ v[1] # ""

\* index.ts:45
HasCredentials(c) == Truthy(c.username) /\ Truthy(c.password)

\* the options of the config, index.ts:36-39 and 45-53; auth is <<>> when
\* the options have no auth entry
Options(c) ==
  [maxPoolSize |-> defaultOptions.maxPoolSize,
   serverSelectionTimeoutMS |-> defaultOptions.serverSelectionTimeoutMS,
   socketTimeoutMS |-> defaultOptions.socketTimeoutMS,
   family |-> defaultOptions.family,
   dbName |-> c.database,
   auth |-> IF HasCredentials(c)
              THEN <<[username |-> c.username[1], password |-> c.password[1]]>>
              ELSE <<>>]

\* getMongoDBConfig of index.ts, index.ts:22-56
getMongoDBConfig(e) ==
  LET configFromFile == getConfigFromFile(e) IN
  [uri |-> JoinUri(configFromFile.uri, configFromFile.database),
   options |-> Options(configFromFile),
   retryAttempts |-> configFromFile.retryAttempts,
   retryDelayMs |-> configFromFile.retryDelayMs]

\* the environment is changed: process.env[k] = v, or delete process.env[k]
SetEnv(k, v) ==
  /\ Alive
  /\ env[k] # v
  /\ env' = [env EXCEPT ![k] = v]
  /\ UNCHANGED <<isConnected, isConnecting, connectionPromise, readyState, lost,
                 listeners, loops, pc, call, quiet, shutdown, resolved, reply, models>>

\* a call of the config resolver
GetConfig ==
  /\ Alive
  /\ resolved' = getConfigFromFile(env)
  /\ UNCHANGED <<isConnected, isConnecting, connectionPromise, readyState, lost,
                 listeners, loops, pc, call, quiet, shutdown, env, reply, models>>

\* a call of getMongoDBConfig of index.ts
GetMongoDBConfig ==
  /\ Alive
  /\ resolved' = getMongoDBConfig(env)
  /\ UNCHANGED <<isConnected, isConnecting, connectionPromise, readyState, lost,
                 listeners, loops, pc, call, quiet, shutdown, env, reply, models>>

\* nothing has been returned yet
NoReply == [of |-> "none"]

\* ------------------------------------------------------------------- Init
\* the manager after the module is loaded, index.ts:58-61
InitManager ==
  /\ isConnected = FALSE
  /\ isConnecting = FALSE
  /\ connectionPromise = 0
  /\ readyState = STATE_disconnected
  /\ lost = FALSE
  /\ listeners = 0
  /\ loops = <<>>
  /\ pc = [p \in Procs |-> "idle"]
  /\ call = [p \in Procs |-> NoCall]
  /\ quiet = FALSE
  /\ shutdown = NoShutdown

Init ==
  /\ InitManager
  /\ env = NoEnv
  /\ resolved = NoConfig
  /\ reply = NoReply
  /\ models = {}

\* -------------------------------------------------------- status functions
\* slip: the live ready-state is not consulted
isMongoDBConnected_flagOnly == isConnected

\* isMongoDBConnected, index.ts:183-184
isMongoDBConnected == isConnected /\ readyState = STATE_connected

\* -------------------------------------------------- the driver (mongoose)
\* mongoose.connect on the handle (called at index.ts:118): the handle starts
\* connecting to the configured target; the attempt settles in a later step
DriverConnectCall(rs) == 2

\* the handle after the driver's connect succeeded: connected, unless a close
\* requested during the attempt (index.ts:164) now takes it to disconnecting
DriverOpened == IF ClosePending THEN 3 ELSE STATE_connected

\* the handle after the driver's connect failed: an attempt that was
\* connecting falls back to disconnected
DriverFailed(rs) == IF rs = 2 THEN STATE_disconnected ELSE rs

\* the observers registered by setupConnectionListeners (index.ts:202-228),
\* run on an event of the handle; without observers the flag is untouched
\* (OnError_logOnly is the slip of an 'error' observer that only logs,
\* OnDisconnected_ignored that of a 'disconnected' observer that only logs)
OnConnected(flag) == IF listeners > 0 THEN TRUE ELSE flag
OnError_logOnly(flag) == flag
OnError(flag) == IF listeners > 0 THEN FALSE ELSE flag
OnDisconnected_ignored(flag) == flag
OnDisconnected(flag) == IF listeners > 0 THEN FALSE ELSE flag
OnReconnected(flag) == IF listeners > 0 THEN TRUE ELSE flag

\* ------------------------------------------------------- connectToMongoDB
\* slip: the ready-state is compared with the wrong code
ReusesExisting_wrongState == isConnected /\ readyState = STATE_disconnected

\* index.ts:72, "already connected, return existing connection"
ReusesExisting == isConnected /\ readyState = STATE_connected

\* slip: the in-progress test reads the wrong flag
JoinsInFlight_wrongFlag == isConnected /\ connectionPromise # 0

\* index.ts:78, "connection is in progress, wait for it"
JoinsInFlight == isConnecting /\ connectionPromise # 0

\* the wrapped error of index.ts:143-147: attempt count and root cause
WrappedError(n, msg) == [n |-> n, msg |-> msg]

\* what a caller receives from the promise of loop l
ConnResolved(l, st) ==
  [NoCall EXCEPT !.op = "connect", !.st = "resolved", !.loop = l,
                 !.starter = st, !.key = "connection", !.msg = "mongoose.connection"]
ConnRejected(l, st, err) ==
  [NoCall EXCEPT !.op = "connect", !.st = "rejected", !.loop = l,
                 !.starter = st, !.n = err.n, !.key = "error", !.msg = err.msg]
ConnPending(l, st) ==
  [NoCall EXCEPT !.op = "connect", !.st = "pending", !.loop = l, !.starter = st]

\* the configs callers pass: retryAttempts n comes with retryDelayMs 500 n
\* (index.ts:112), so that loops of different configs sleep differently
retryDelayMs(n) == 500 * n

\* attemptConnection up to its first await (index.ts:112-118): attempt 1 has
\* called mongoose.connect.  delay is the loop's retryDelayMs, timer the
\* duration of the sleep it is in (0 when it is not sleeping), waited the
\* duration of the sleep before this attempt (0 before the first sleep)
NewLoop(n) == [n |-> n, delay |-> retryDelayMs(n), attempt |-> 1, calls |-> 1,
               sleeps |-> 0, timer |-> 0, waited |-> 0,
               phase |-> "connecting", err |-> WrappedError(0, "none")]

\* a loop that has ended: its locals are gone, its promise is settled.  The
\* settling step hands the outcome to every caller awaiting the promise
\* and the starter's continuation runs in it (index.ts:97-104), after which
\* no connect() is given this promise any more: the record keeps the phase
EndedLoop(ph) == [n |-> 0, delay |-> 0, attempt |-> 0, calls |-> 0,
                  sleeps |-> 0, timer |-> 0, waited |-> 0, phase |-> ph,
                  err |-> WrappedError(0, "none")]

\* connectToMongoDB(config) with config.retryAttempts = n, index.ts:68-97
connectToMongoDB(p, n) ==
  /\ ManagerStep
  /\ pc[p] \in {"idle", "done"}
  /\ quiet' = FALSE
  /\ IF ReusesExisting
       THEN /\ pc' = [pc EXCEPT ![p] = "done"]
            /\ call' = [call EXCEPT ![p] = ConnResolved(0, FALSE)]
            /\ UNCHANGED <<isConnected, isConnecting, connectionPromise,
                           readyState, lost, loops>>
       ELSE IF JoinsInFlight
         THEN LET l == connectionPromise IN
              /\ pc' = [pc EXCEPT ![p] = IF Running(l) THEN "awaitConn" ELSE "done"]
              /\ call' = [call EXCEPT ![p] =
                            IF Running(l) THEN ConnPending(l, FALSE)
                            ELSE IF loops[l].phase = "resolved"
                                   THEN ConnResolved(l, FALSE)
                                   ELSE ConnRejected(l, FALSE, loops[l].err)]
              /\ UNCHANGED <<isConnected, isConnecting, connectionPromise,
                             readyState, lost, loops>>
         ELSE /\ Len(loops) < MaxLoops
              /\ isConnecting' = TRUE
              /\ loops' = Append(loops, NewLoop(n))
              /\ readyState' = DriverConnectCall(readyState)
              /\ lost' = FALSE
              /\ connectionPromise' = Len(loops) + 1
              /\ pc' = [pc EXCEPT ![p] = "awaitConn"]
              /\ call' = [call EXCEPT ![p] = ConnPending(Len(loops) + 1, TRUE)]
              /\ UNCHANGED isConnected

Connect(p, n) ==
  /\ connectToMongoDB(p, n)
  /\ UNCHANGED listeners

\* slip: the config is resolved before the tests for an existing or pending
\* connection
ResolvedWithoutStart_eager(r, e) == getMongoDBConfig(e)

\* what the last resolution returned after a connect() that starts no loop:
\* index.ts:72-81 return before the config is looked at
ResolvedWithoutStart(r, e) == r

\* the loop attemptConnection(mongoConfig) starts, index.ts:85, 94, 112
NewLoopOf(mongoConfig) ==
  [NewLoop(mongoConfig.retryAttempts) EXCEPT !.delay = mongoConfig.retryDelayMs]

\* connectToMongoDB() without a config, index.ts:68-97: the config of a new
\* loop is getMongoDBConfig() (index.ts:85)
ConnectNoConfig(p) ==
  /\ Alive
  /\ pc[p] \in {"idle", "done"}
  /\ quiet' = FALSE
  /\ IF ReusesExisting
       THEN /\ pc' = [pc EXCEPT ![p] = "done"]
            /\ call' = [call EXCEPT ![p] = ConnResolved(0, FALSE)]
            /\ resolved' = ResolvedWithoutStart(resolved, env)
            /\ UNCHANGED <<isConnected, isConnecting, connectionPromise,
                           readyState, lost, loops>>
       ELSE IF JoinsInFlight
         THEN LET l == connectionPromise IN
              /\ pc' = [pc EXCEPT ![p] = IF Running(l) THEN "awaitConn" ELSE "done"]
              /\ call' = [call EXCEPT ![p] =
                            IF Running(l) THEN ConnPending(l, FALSE)
                            ELSE IF loops[l].phase = "resolved"
                                   THEN ConnResolved(l, FALSE)
                                   ELSE ConnRejected(l, FALSE, loops[l].err)]
              /\ resolved' = ResolvedWithoutStart(resolved, env)
              /\ UNCHANGED <<isConnected, isConnecting, connectionPromise,
                             readyState, lost, loops>>
         ELSE /\ Len(loops) < MaxLoops
              /\ isConnecting' = TRUE
              /\ resolved' = getMongoDBConfig(env)
              /\ loops' = Append(loops, NewLoopOf(getMongoDBConfig(env)))
              /\ readyState' = DriverConnectCall(readyState)
              /\ lost' = FALSE
              /\ connectionPromise' = Len(loops) + 1
              /\ pc' = [pc EXCEPT ![p] = "awaitConn"]
              /\ call' = [call EXCEPT ![p] = ConnPending(Len(loops) + 1, TRUE)]
              /\ UNCHANGED isConnected
  /\ UNCHANGED <<listeners, shutdown, env, reply, models>>

\* initializeMongoDB, index.ts:290-295: one more set of observers, then connect
Initialize(p, n) ==
  /\ listeners < MaxListeners
  /\ listeners' = listeners + 1
  /\ connectToMongoDB(p, n)

\* -------------------------------------------------------- attemptConnection
\* slip: off by one, the attempt before the last counts as the last
IsLastAttempt_offByOne(l) == loops[l].attempt >= loops[l].n - 1

\* index.ts:131
IsLastAttempt(l) == loops[l].attempt = loops[l].n

\* slip: back-off, the delay grows with the attempt number
SleepDuration_backoff(l) == loops[l].delay * (loops[l].attempt + 1)

\* the argument of sleep() at index.ts:151
SleepDuration(l) == loops[l].delay

\* slip: only the caller that started the loop is resumed
Waiters_starterOnly(l) ==
  {q \in Procs : pc[q] = "awaitConn" /\ call[q].loop = l /\ call[q].starter}

\* the callers awaiting the promise of loop l (index.ts:81, 97)
Waiters(l) == {q \in Procs : pc[q] = "awaitConn" /\ call[q].loop = l}

\* slip: the continuation forgets to set the flag
FlagAfterResolve_forgotten(flag) == flag

\* the starter's continuation after its loop resolved, index.ts:98-99
FlagAfterResolve(flag) == TRUE
ConnectingAfterResolve == FALSE

\* the starter's continuation after its loop rejected, index.ts:102-103
ConnectingAfterReject == FALSE
PromiseAfterReject(cp) == 0

\* mongoose.connect of loop l resolved: the loop returns the handle
\* (index.ts:129), its starter runs index.ts:98-100 and every caller
\* awaiting the promise receives the handle
AttemptSucceeds(l) ==
  /\ ManagerStep
  /\ l \in LoopIds
  /\ loops[l].phase = "connecting"
  /\ readyState' = DriverOpened
  /\ lost' = FALSE
  /\ loops' = [loops EXCEPT ![l] = EndedLoop("resolved")]
  /\ isConnected' = FlagAfterResolve(OnConnected(isConnected))
  /\ isConnecting' = ConnectingAfterResolve
  /\ pc' = [q \in Procs |-> IF q \in Waiters(l) THEN "done" ELSE pc[q]]
  /\ call' = [q \in Procs |-> IF q \in Waiters(l)
                                THEN ConnResolved(l, FALSE)
                                ELSE call[q]]
  /\ UNCHANGED <<connectionPromise, listeners, quiet>>

\* mongoose.connect of loop l rejected with msg (index.ts:130-152): the last
\* attempt rejects the promise with the wrapped error and the starter runs
\* index.ts:102-104; any other attempt goes to sleep
AttemptFails(l, msg) ==
  /\ ManagerStep
  /\ l \in LoopIds
  /\ loops[l].phase = "connecting"
  /\ readyState' = DriverFailed(readyState)
  /\ lost' = FALSE
  /\ IF IsLastAttempt(l)
       THEN /\ loops' = [loops EXCEPT ![l] = EndedLoop("rejected")]
            /\ isConnected' = IF readyState = 2 THEN OnError(isConnected) ELSE isConnected
            /\ isConnecting' = ConnectingAfterReject
            /\ connectionPromise' = PromiseAfterReject(connectionPromise)
            /\ pc' = [q \in Procs |-> IF q \in Waiters(l) THEN "done" ELSE pc[q]]
            /\ call' = [q \in Procs |-> IF q \in Waiters(l)
                                          THEN ConnRejected(l, FALSE,
                                                            WrappedError(loops[l].n, msg))
                                          ELSE call[q]]
       ELSE /\ loops' = [loops EXCEPT ![l].phase = "sleeping",
                                      ![l].timer = SleepDuration(l)]
            /\ isConnected' = IF readyState = 2 THEN OnError(isConnected) ELSE isConnected
            /\ UNCHANGED <<isConnecting, connectionPromise, pc, call>>
  /\ UNCHANGED <<listeners, quiet>>

\* sleep(retryDelayMs) of loop l is over (index.ts:151, 114-118): next attempt
SleepDone(l) ==
  /\ ManagerStep
  /\ l \in LoopIds
  /\ loops[l].phase = "sleeping"
  /\ loops' = [loops EXCEPT ![l].phase = "connecting",
                            ![l].attempt = @ + 1,
                            ![l].calls = @ + 1,
                            ![l].sleeps = @ + 1,
                            ![l].waited = loops[l].timer,
                            ![l].timer = 0]
  /\ readyState' = DriverConnectCall(readyState)
  /\ lost' = FALSE
  /\ UNCHANGED <<isConnected, isConnecting, connectionPromise, listeners, pc, call,
                 quiet>>

\* --------------------------------------------------- disconnectFromMongoDB
\* mongoose.disconnect on the handle (called at index.ts:164): a connected
\* handle starts disconnecting; a connecting one is closed once its attempt ends
DriverCloseCall(rs) == IF rs = STATE_connected THEN 3 ELSE rs

\* the handle after a close that failed: as before the close, or dropped
DriverCloseFailed(rs) == IF rs = 3 THEN {STATE_connected, STATE_disconnected} ELSE {rs}

DiscPending == [NoCall EXCEPT !.op = "disconnect", !.st = "pending", !.n = 1]
DiscResolved(closes) ==
  [NoCall EXCEPT !.op = "disconnect", !.st = "resolved", !.n = closes]
\* slip: the catch logs the error of the close and returns
DiscRejected_swallowed(msg) == DiscResolved(1)

\* index.ts:171-178: the error of the close is thrown on as it is
DiscRejected(msg) ==
  [NoCall EXCEPT !.op = "disconnect", !.st = "rejected", !.n = 1,
                 !.key = "error", !.msg = msg]

\* slip: the ready-state is compared with the wrong code
NeedsClose_wrongState == readyState # STATE_connected

\* index.ts:162
NeedsClose == readyState # STATE_disconnected

\* disconnectFromMongoDB up to its await, index.ts:160-170
Disconnect(p) ==
  /\ ManagerStep
  /\ pc[p] \in {"idle", "done"}
  /\ IF NeedsClose
       THEN /\ pc' = [pc EXCEPT ![p] = "closing"]
            /\ call' = [call EXCEPT ![p] = DiscPending]
            /\ readyState' = DriverCloseCall(readyState)
            /\ UNCHANGED quiet
       ELSE /\ pc' = [pc EXCEPT ![p] = "done"]
            /\ call' = [call EXCEPT ![p] = DiscResolved(0)]
            /\ quiet' = TRUE
            /\ UNCHANGED readyState
  /\ UNCHANGED <<isConnected, isConnecting, connectionPromise, lost, listeners, loops>>

\* the continuation after the close, index.ts:165-166
FlagAfterClose(flag) == FALSE
PromiseAfterClose(cp) == 0

\* mongoose.disconnect resolved, index.ts:165-167.  The driver closes a
\* connecting handle only after the attempt has ended.
CloseSucceeds(p) ==
  /\ ManagerStep
  /\ pc[p] = "closing"
  /\ ~DriverConnectPending
  /\ readyState' = STATE_disconnected
  /\ lost' = FALSE
  /\ isConnected' = FlagAfterClose(OnDisconnected(isConnected))
  /\ connectionPromise' = PromiseAfterClose(connectionPromise)
  /\ pc' = [pc EXCEPT ![p] = "done"]
  /\ call' = [call EXCEPT ![p] = DiscResolved(1)]
  /\ quiet' = TRUE
  /\ UNCHANGED <<isConnecting, listeners, loops>>

\* slip: the flag is cleared whether the close succeeded or not
FlagAfterCloseFailed_cleared(flag) == FALSE

\* the catch of disconnectFromMongoDB assigns nothing, index.ts:171-178
FlagAfterCloseFailed(flag) == flag

\* mongoose.disconnect rejected with msg, index.ts:171-178
CloseFails(p, msg) ==
  /\ ManagerStep
  /\ pc[p] = "closing"
  /\ \E rs \in DriverCloseFailed(readyState) :
       /\ readyState' = rs
       /\ isConnected' = IF rs = STATE_disconnected /\ readyState # rs
                           THEN OnDisconnected(FlagAfterCloseFailed(isConnected))
                           ELSE FlagAfterCloseFailed(isConnected)
  /\ pc' = [pc EXCEPT ![p] = "done"]
  /\ call' = [call EXCEPT ![p] = DiscRejected(msg)]
  /\ UNCHANGED <<isConnecting, connectionPromise, lost, listeners, loops, quiet>>

\* ------------------------------------------------------------- healthCheck
HealthPending == [NoCall EXCEPT !.op = "health", !.st = "pending", !.n = 1,
                                !.seen = TRUE]
\* index.ts:270-276
NotConnectedResult ==
  [NoCall EXCEPT !.op = "health", !.st = "unhealthy", !.key = "reason",
                 !.msg = "Not connected to database"]
\* index.ts:262-268
PingOkResult(c) == [c EXCEPT !.st = "healthy", !.key = "ping", !.msg = "successful"]
\* slip: no catch, the failure of the ping reaches the caller
PingErrorResult_rethrown(c, msg) == [c EXCEPT !.st = "rejected", !.key = "error", !.msg = msg]

\* index.ts:278-285
PingErrorResult(c, msg) == [c EXCEPT !.st = "unhealthy", !.key = "error", !.msg = msg]

\* slip: the ping is issued without looking at isMongoDBConnected()
HealthCheck_alwaysPings(p) ==
  /\ ManagerStep
  /\ pc[p] \in {"idle", "done"}
  /\ pc' = [pc EXCEPT ![p] = "pinging"]
  /\ call' = [call EXCEPT ![p] = HealthPending]
  /\ UNCHANGED <<isConnected, isConnecting, connectionPromise, readyState, lost,
                 listeners, loops, quiet>>

\* healthCheck up to its await, index.ts:254-260: the ping is issued only
\* when isMongoDBConnected() reads true
HealthCheck(p) ==
  /\ ManagerStep
  /\ pc[p] \in {"idle", "done"}
  /\ IF isMongoDBConnected
       THEN /\ pc' = [pc EXCEPT ![p] = "pinging"]
            /\ call' = [call EXCEPT ![p] = HealthPending]
       ELSE /\ pc' = [pc EXCEPT ![p] = "done"]
            /\ call' = [call EXCEPT ![p] = NotConnectedResult]
  /\ UNCHANGED <<isConnected, isConnecting, connectionPromise, readyState, lost,
                 listeners, loops, quiet>>

\* the ping resolved, index.ts:262-268
PingSucceeds(p) ==
  /\ ManagerStep
  /\ pc[p] = "pinging"
  /\ pc' = [pc EXCEPT ![p] = "done"]
  /\ call' = [call EXCEPT ![p] = PingOkResult(call[p])]
  /\ UNCHANGED <<isConnected, isConnecting, connectionPromise, readyState, lost,
                 listeners, loops, quiet>>

\* the ping threw msg, index.ts:278-285
PingFails(p, msg) ==
  /\ ManagerStep
  /\ pc[p] = "pinging"
  /\ pc' = [pc EXCEPT ![p] = "done"]
  /\ call' = [call EXCEPT ![p] = PingErrorResult(call[p], msg)]
  /\ UNCHANGED <<isConnected, isConnecting, connectionPromise, readyState, lost,
                 listeners, loops, quiet>>

\* ------------------------------------------------ driver lifecycle events
\* the live connection is lost: 'disconnected', index.ts:219-222
ConnectionLost ==
  /\ ManagerStep
  /\ readyState = STATE_connected
  /\ readyState' = STATE_disconnected
  /\ lost' = TRUE
  /\ isConnected' = OnDisconnected(isConnected)
  /\ UNCHANGED <<isConnecting, connectionPromise, listeners, loops, pc, call, quiet>>

\* the driver regained a lost connection: 'connected' and 'reconnected',
\* index.ts:202-205 and 225-228
Reconnected ==
  /\ ManagerStep
  /\ readyState = STATE_disconnected
  /\ lost
  /\ readyState' = STATE_connected
  /\ lost' = FALSE
  /\ isConnected' = OnReconnected(OnConnected(isConnected))
  /\ UNCHANGED <<isConnecting, connectionPromise, listeners, loops, pc, call, quiet>>

\* an 'error' event on the live connection, index.ts:208-216
ErrorEvent ==
  /\ ManagerStep
  /\ listeners > 0
  /\ readyState = STATE_connected
  /\ isConnected' = OnError(isConnected)
  /\ UNCHANGED <<isConnecting, connectionPromise, readyState, lost, listeners,
                 loops, pc, call, quiet>>

\* ------------------------------------------- termination signal (SIGINT)
\* slip: the handler exits with 0 whatever the disconnect did
ExitStatus_alwaysZero(ok) == EXIT_success

\* the status the SIGINT handler exits with, index.ts:235-245
ExitStatus(ok) == IF ok THEN EXIT_success ELSE EXIT_failure

\* SIGINT is delivered (index.ts:231-236): each registered handler, one per
\* setupConnectionListeners call, runs disconnectFromMongoDB up to its await.
\* On a disconnected handle every disconnect() returns at once and the first
\* handler to continue exits the process.
Sigint ==
  /\ Alive
  /\ listeners > 0
  /\ shutdown.signals < MaxSignals
  /\ IF NeedsClose
       THEN /\ readyState' = DriverCloseCall(readyState)
            /\ shutdown' = [shutdown EXCEPT !.signals = @ + 1,
                                            !.calls = @ + listeners,
                                            !.closing = @ + listeners]
            /\ UNCHANGED quiet
       ELSE /\ shutdown' = [shutdown EXCEPT !.signals = @ + 1,
                                            !.calls = @ + listeners,
                                            !.exited = TRUE,
                                            !.status = ExitStatus(TRUE)]
            /\ quiet' = TRUE
            /\ UNCHANGED readyState
  /\ UNCHANGED <<isConnected, isConnecting, connectionPromise, lost, listeners,
                 loops, pc, call, env, resolved, reply, models>>

\* the close of a SIGINT handler resolved: index.ts:165-167, then
\* process.exit(0) at index.ts:237
SigintCloseSucceeds ==
  /\ Alive
  /\ shutdown.closing > 0
  /\ ~DriverConnectPending
  /\ readyState' = STATE_disconnected
  /\ lost' = FALSE
  /\ isConnected' = FlagAfterClose(OnDisconnected(isConnected))
  /\ connectionPromise' = PromiseAfterClose(connectionPromise)
  /\ shutdown' = [shutdown EXCEPT !.closing = @ - 1, !.exited = TRUE,
                                  !.status = ExitStatus(TRUE)]
  /\ quiet' = TRUE
  /\ UNCHANGED <<isConnecting, listeners, loops, pc, call, env, resolved, reply, models>>

\* the close of a SIGINT handler rejected: index.ts:171-178, then the
\* handler's catch and process.exit(1) at index.ts:238-245
SigintCloseFails ==
  /\ Alive
  /\ shutdown.closing > 0
  /\ \E rs \in DriverCloseFailed(readyState) :
       /\ readyState' = rs
       /\ isConnected' = IF rs = STATE_disconnected /\ readyState # rs
                           THEN OnDisconnected(isConnected) ELSE isConnected
  /\ shutdown' = [shutdown EXCEPT !.closing = @ - 1, !.exited = TRUE,
                                  !.status = ExitStatus(FALSE)]
  /\ UNCHANGED <<isConnecting, connectionPromise, lost, listeners, loops, pc, call,
                 quiet, env, resolved, reply, models>>

\* ------------------------------------------------ GET /health (index.ts)
\* the instants process.uptime() is read at
Uptimes == 1..MaxUptime

\* slip: the route reports the state of the database connection
HealthBody_database(e, up) ==
  [status |-> IF isMongoDBConnected THEN "OK" ELSE "ERROR",
   message |-> IF isMongoDBConnected THEN "Service is healthy"
                                     ELSE "Service is unhealthy",
   uptime |-> up,
   environment |-> Nullish(e.NODE_ENV, "development")]

\* the body of the response, index.ts:15-21 (the timestamp left out)
HealthBody(e, up) ==
  [status |-> "OK",
   message |-> "Service is healthy",
   uptime |-> up,
   environment |-> Nullish(e.NODE_ENV, "development")]

\* app.get('/health') handles a request, index.ts:13-22
GetHealth ==
  /\ Alive
  /\ \E up \in Uptimes :
       reply' = [of |-> "GET /health", statusCode |-> 200,
                 body |-> HealthBody(env, up)]
  /\ UNCHANGED <<isConnected, isConnecting, connectionPromise, readyState, lost,
                 listeners, loops, pc, call, quiet, shutdown, env, resolved, models>>


\* ------------------------------------- getConnectionInfo (index.ts:187-197)
\* the models module is loaded: User is registered unless it is already
LoadModels ==
  /\ Alive
  /\ "User" \notin models
  /\ models' = models \cup {"User"}
  /\ UNCHANGED <<isConnected, isConnecting, connectionPromise, readyState, lost,
                 listeners, loops, pc, call, quiet, shutdown, env, resolved, reply>>

\* slip: the info reports the module flag as it is
ConnectionInfo_flagOnly ==
  [of |-> "getConnectionInfo", isConnected |-> isConnected,
   readyState |-> readyState, models |-> models]

\* the object getConnectionInfo returns, index.ts:189-196.  host, port and
\* name are fields of the handle that the driver alone writes: left out
ConnectionInfo ==
  [of |-> "getConnectionInfo", isConnected |-> isMongoDBConnected,
   readyState |-> readyState, models |-> models]

\* a call of getConnectionInfo
GetConnectionInfo ==
  /\ Alive
  /\ reply' = ConnectionInfo
  /\ UNCHANGED <<isConnected, isConnecting, connectionPromise, readyState, lost,
                 listeners, loops, pc, call, quiet, shutdown, env, resolved, models>>

Next ==
  \/ \E p \in Procs, n \in 1..MaxRetry : Connect(p, n)
  \/ \E p \in Procs, n \in 1..MaxRetry : Initialize(p, n)
  \/ \E l \in 1..MaxLoops : AttemptSucceeds(l)
  \/ \E l \in 1..MaxLoops, m \in ErrMsgs : AttemptFails(l, m)
  \/ \E l \in 1..MaxLoops : SleepDone(l)
  \/ \E p \in Procs : Disconnect(p)
  \/ \E p \in Procs : CloseSucceeds(p)
  \/ \E p \in Procs, m \in ErrMsgs : CloseFails(p, m)
  \/ \E p \in Procs : HealthCheck(p)
  \/ \E p \in Procs : PingSucceeds(p)
  \/ \E p \in Procs, m \in ErrMsgs : PingFails(p, m)
  \/ ConnectionLost
  \/ Reconnected
  \/ ErrorEvent

Spec == Init /\ [][Next]_vars

\* the step loop l is waiting for: the settlement of its driver connect
\* call, or the end of its sleep
LoopStep(l) ==
  \/ AttemptSucceeds(l)
  \/ \E m \in ErrMsgs : AttemptFails(l, m)
  \/ SleepDone(l)

\* Every driver connect call settles and every sleep ends (the driver's own
\* timeouts, setTimeout): each loop's pending step is eventually taken.
LoopFairness == \A l \in 1..MaxLoops : WF_vars(LoopStep(l))

FairSpec == Init /\ [][Next]_vars /\ LoopFairness

\* The process with its termination signal: the operations are called by one
\* task, the SIGINT handlers are the other tasks.
MainTask == {"p1"}

NextShutdown ==
  \/ \E p \in MainTask, n \in 1..MaxRetry : Connect(p, n)
  \/ \E p \in MainTask, n \in 1..MaxRetry : Initialize(p, n)
  \/ \E l \in 1..MaxLoops : AttemptSucceeds(l)
  \/ \E l \in 1..MaxLoops, m \in ErrMsgs : AttemptFails(l, m)
  \/ \E l \in 1..MaxLoops : SleepDone(l)
  \/ \E p \in MainTask : Disconnect(p)
  \/ \E p \in MainTask : CloseSucceeds(p)
  \/ \E p \in MainTask, m \in ErrMsgs : CloseFails(p, m)
  \/ \E p \in MainTask : HealthCheck(p)
  \/ \E p \in MainTask : PingSucceeds(p)
  \/ \E p \in MainTask, m \in ErrMsgs : PingFails(p, m)
  \/ ConnectionLost
  \/ Reconnected
  \/ ErrorEvent
  \/ Sigint
  \/ SigintCloseSucceeds
  \/ SigintCloseFails

SpecShutdown == Init /\ [][NextShutdown]_vars

\* The config resolver called under every environment, the environment
\* changing between calls.
InitConfig ==
  /\ InitManager
  /\ env \in [NODE_ENV : EnvValues.NODE_ENV,
               MONGODB_URI : EnvValues.MONGODB_URI,
               MONGODB_DATABASE : EnvValues.MONGODB_DATABASE,
               MONGODB_TEST_DATABASE : EnvValues.MONGODB_TEST_DATABASE,
               MONGODB_USERNAME : EnvValues.MONGODB_USERNAME,
               MONGODB_PASSWORD : EnvValues.MONGODB_PASSWORD]
  /\ resolved = NoConfig
  /\ reply = NoReply
  /\ models = {}

NextConfig ==
  \/ \E k \in EnvNames : \E v \in EnvValues[k] : SetEnv(k, v)
  \/ GetConfig

SpecConfig == InitConfig /\ [][NextConfig]_vars

\* the server: one task uses the manager while requests come in, under
\* every deployment mode.
InitServer ==
  /\ InitManager
  /\ \E m \in EnvValues.NODE_ENV : env = [NoEnv EXCEPT !.NODE_ENV = m]
  /\ resolved = NoConfig
  /\ reply = NoReply
  /\ models = {}

NextServer ==
  \/ \E p \in MainTask, n \in 1..MaxRetry : Connect(p, n)
  \/ \E l \in 1..MaxLoops : AttemptSucceeds(l)
  \/ \E l \in 1..MaxLoops, m \in ErrMsgs : AttemptFails(l, m)
  \/ \E l \in 1..MaxLoops : SleepDone(l)
  \/ \E p \in MainTask : Disconnect(p)
  \/ \E p \in MainTask : CloseSucceeds(p)
  \/ \E p \in MainTask, m \in ErrMsgs : CloseFails(p, m)
  \/ \E p \in MainTask : HealthCheck(p)
  \/ \E p \in MainTask : PingSucceeds(p)
  \/ \E p \in MainTask, m \in ErrMsgs : PingFails(p, m)
  \/ GetHealth
  \/ LoadModels
  \/ GetConnectionInfo

SpecServer == InitServer /\ [][NextServer]_vars

\* ------------------------------------ errorHandler (part_010, ApiError.ts)
\* HttpStatusCode, ApiError.ts:4-32 (the codes the handler meets)
HttpStatusCode == [BAD_REQUEST |-> 400, UNAUTHORIZED |-> 401, CONFLICT |-> 409,
                   INTERNAL_SERVER_ERROR |-> 500, SERVICE_UNAVAILABLE |-> 503]

\* ErrorType, ApiError.ts:37-48
ErrorType == [VALIDATION |-> "VALIDATION_ERROR",
              AUTHENTICATION |-> "AUTHENTICATION_ERROR",
              CONFLICT |-> "CONFLICT_ERROR",
              INTERNAL |-> "INTERNAL_ERROR",
              DATABASE |-> "DATABASE_ERROR"]

\* the ids generateErrorId gives out, ApiError.ts:139-143
ErrorIds == 1..MaxErrorIds

\* messages of the errors thrown
Messages == {"E11000 duplicate key", "connect ECONNREFUSED 10.0.0.5"}

\* an error as the handler sees it.  details is <<>> (undefined) or
\* <<value>>; url tells whether metadata.url is set; code is the code of a
\* MongoServerError; body tells whether the error has a body property
AnError(cls, name, msg, sc, ty, det, op, url, id, code, body) ==
  [cls |-> cls, name |-> name, message |-> msg, statusCode |-> sc, type |-> ty,
   details |-> det, isOperational |-> op, url |-> url, errorId |-> id,
   code |-> code, body |-> body]

\* new ApiError(message, statusCode, type, details, metadata, isOperational),
\* ApiError.ts:109-137: the metadata gets its url from the caller
NewApiError(msg, sc, ty, det, url, op, id) ==
  AnError("ApiError", "ApiError", msg, sc, ty, det, op, url, id, 0, FALSE)

\* the ApiError instances thrown by the application
ApiErrors ==
  {NewApiError(m, sc, ty, det, url, op, 1) :
     m \in Messages,
     sc \in {HttpStatusCode.BAD_REQUEST, HttpStatusCode.INTERNAL_SERVER_ERROR,
             HttpStatusCode.SERVICE_UNAVAILABLE},
     ty \in {ErrorType.VALIDATION, ErrorType.DATABASE},
     det \in {<<>>, <<"field">>},
     url \in BOOLEAN, op \in BOOLEAN}

\* the other errors thrown: by mongoose, the driver, the token library, the
\* body parser, or anything else
PlainErrors ==
  {AnError("Error", name, m, 0, "", <<>>, FALSE, FALSE, 0, code, body) :
     name \in {"ValidationError", "CastError", "MongoServerError",
               "JsonWebTokenError", "TokenExpiredError", "SyntaxError", "Error"},
     m \in Messages, code \in {0, 11000}, body \in BOOLEAN}

Errors == ApiErrors \cup PlainErrors

\* the conversion of an error that is no ApiError, part_010:88-135 with the
\* factories of ApiError.ts:226-397; id is the id of the new ApiError
ConvertError(error, id) ==
  IF error.name = "ValidationError"
    THEN NewApiError("Validation failed", HttpStatusCode.BAD_REQUEST,
                     ErrorType.VALIDATION, <<"fields">>, TRUE, TRUE, id)
  ELSE IF error.name = "CastError"
    THEN NewApiError("Invalid ID format", HttpStatusCode.BAD_REQUEST,
                     ErrorType.VALIDATION, <<"id">>, FALSE, TRUE, id)
  ELSE IF error.name = "MongoServerError"
    THEN IF error.code = 11000
           THEN NewApiError("Resource already exists", HttpStatusCode.CONFLICT,
                            ErrorType.CONFLICT, <<"key">>, FALSE, TRUE, id)
           ELSE NewApiError(error.message, HttpStatusCode.INTERNAL_SERVER_ERROR,
                            ErrorType.DATABASE, <<>>, FALSE, FALSE, id)
  ELSE IF error.name = "JsonWebTokenError"
    THEN NewApiError("Invalid token", HttpStatusCode.UNAUTHORIZED,
                     ErrorType.AUTHENTICATION, <<>>, FALSE, TRUE, id)
  ELSE IF error.name = "TokenExpiredError"
    THEN NewApiError("Token expired", HttpStatusCode.UNAUTHORIZED,
                     ErrorType.AUTHENTICATION, <<>>, FALSE, TRUE, id)
  ELSE IF error.name = "SyntaxError" /\ error.body
    THEN NewApiError("Invalid JSON in request body", HttpStatusCode.BAD_REQUEST,
                     ErrorType.VALIDATION, <<>>, FALSE, TRUE, id)
  ELSE NewApiError(error.message, HttpStatusCode.INTERNAL_SERVER_ERROR,
                   ErrorType.INTERNAL, <<>>, TRUE, FALSE, id)

\* the ApiError the handler answers with, part_010:84-157; id2 is the id of
\* the copy made when the metadata has no url
ToApiError(error, id, id2) ==
  LET a == IF error.cls = "ApiError" THEN error ELSE ConvertError(error, id) IN
  IF ~a.url
    THEN NewApiError(a.message, a.statusCode, a.type, a.details, TRUE,
                     a.isOperational, id2)
    ELSE a

\* slip: the status code is not looked at
shouldExposeToClient_operational(a) == a.isOperational

\* ApiError.shouldExposeToClient, ApiError.ts:208-210
shouldExposeToClient(a) ==
  a.isOperational /\ a.statusCode < HttpStatusCode.INTERNAL_SERVER_ERROR

\* ApiError.toJSON, ApiError.ts:148-170 (the timestamp left out): details
\* and stack are <<>> when the object has no such entry
toJSON(a, e) ==
  [message |-> a.message,
   type |-> a.type,
   statusCode |-> a.statusCode,
   errorId |-> a.errorId,
   details |-> IF a.details # <<>> /\ e.NODE_ENV # <<"production">>
                 THEN a.details ELSE <<>>,
   stack |-> IF e.NODE_ENV = <<"development">> THEN <<"stack">> ELSE <<>>]

\* the response errorHandler sends, part_010:171-190
ErrorResponse(a, e) ==
  IF e.NODE_ENV = <<"production">> /\ ~shouldExposeToClient(a)
    THEN [of |-> "errorHandler", apiError |-> a,
          statusCode |-> HttpStatusCode.INTERNAL_SERVER_ERROR,
          body |-> [message |-> "An internal error occurred",
                    type |-> "INTERNAL_ERROR",
                    statusCode |-> HttpStatusCode.INTERNAL_SERVER_ERROR,
                    errorId |-> a.errorId,
                    details |-> <<>>, stack |-> <<>>]]
    ELSE [of |-> "errorHandler", apiError |-> a,
          statusCode |-> a.statusCode,
          body |-> toJSON(a, e)]

\* errorHandler(error, req, res, next), part_010:78-190
HandleError(error) ==
  /\ Alive
  /\ \E id, id2 \in ErrorIds :
       reply' = ErrorResponse(ToApiError(error, id, id2), env)
  /\ UNCHANGED <<isConnected, isConnecting, connectionPromise, readyState, lost,
                 listeners, loops, pc, call, quiet, shutdown, env, resolved, models>>

\* errors reach the handler under one deployment mode.
NextErrors == \E error \in Errors : HandleError(error)

SpecErrors == InitServer /\ [][NextErrors]_vars

\* connect() with a config and without one, in testing mode and in the
\* default mode.
InitArgs ==
  /\ InitManager
  /\ \E m \in {<<>>, <<"testing">>} : env = [NoEnv EXCEPT !.NODE_ENV = m]
  /\ resolved = NoConfig
  /\ reply = NoReply
  /\ models = {}

NextArgs ==
  \/ \E p \in Procs, n \in 1..MaxRetry : Connect(p, n)
  \/ \E p \in Procs : ConnectNoConfig(p)
  \/ \E l \in 1..MaxLoops : AttemptSucceeds(l)
  \/ \E l \in 1..MaxLoops, m \in ErrMsgs : AttemptFails(l, m)
  \/ \E l \in 1..MaxLoops : SleepDone(l)
  \/ \E p \in Procs : Disconnect(p)
  \/ \E p \in Procs : CloseSucceeds(p)

SpecArgs == InitArgs /\ [][NextArgs]_vars

\* connect() with up to MaxBackoffRetry attempts, so that a loop sleeps
\* more than once; the handle may be closed between loops.
NextRetry ==
  \/ \E p \in Procs, n \in 1..MaxBackoffRetry : Connect(p, n)
  \/ \E l \in 1..MaxLoops : AttemptSucceeds(l)
  \/ \E l \in 1..MaxLoops, m \in ErrMsgs : AttemptFails(l, m)
  \/ \E l \in 1..MaxLoops : SleepDone(l)
  \/ \E p \in Procs : Disconnect(p)
  \/ \E p \in Procs : CloseSucceeds(p)

SpecRetry == Init /\ [][NextRetry]_vars

\* getMongoDBConfig of index.ts called under every environment, the
\* environment changing between calls.
NextTarget ==
  \/ \E k \in EnvNames : \E v \in EnvValues[k] : SetEnv(k, v)
  \/ GetMongoDBConfig

SpecTarget == InitConfig /\ [][NextTarget]_vars

\* ================================================================ claims

\* C2: in every reachable state at most one retry loop is in flight.
\* The code violates it: a disconnect() requested during an attempt clears
\* connectionPromise while isConnecting stays true, and the next connect()
\* starts a second loop beside the first.
AtMostOneInFlight == Cardinality(InFlight) <= 1

\* p calls connect() or initialize() in this step
CallsConnect(p) == \E n \in 1..MaxRetry : Connect(p, n) \/ Initialize(p, n)

\* the manager's states, read off the variables
StateConnected == isConnected /\ readyState = 1
StateConnecting == isConnecting /\ connectionPromise # 0 /\ ~StateConnected

ExactlyNAttemptsThenFails ==
  [][\A l \in 1..MaxLoops, m \in ErrMsgs :
       AttemptFails(l, m) =>
         /\ loops[l].calls <= loops[l].n
         /\ loops[l].calls < loops[l].n =>
              /\ loops'[l].phase = "sleeping"
              /\ \A q \in Procs : (pc[q] = "awaitConn" /\ call[q].loop = l)
                                     => pc'[q] = "awaitConn"
         /\ loops[l].calls = loops[l].n =>
              /\ loops'[l].phase = "rejected"
              /\ \A q \in Procs : (pc[q] = "awaitConn" /\ call[q].loop = l)
                   => /\ pc'[q] = "done"
                      /\ call'[q].st = "rejected"
                      /\ call'[q].n = loops[l].n
                      /\ call'[q].msg = m
    ]_vars

\* C3 witness: a connect() rejected after MaxRetry attempts
RejectedAfterAllAttempts ==
  \E p \in Procs :
    /\ pc[p] = "done" /\ call[p].op = "connect" /\ call[p].st = "rejected"
    /\ call[p].n = MaxRetry

\* C4: when a loop is exhausted every caller waiting on it observes the
\* rejection and the manager is back in Disconnected (isConnecting false,
\* connectionPromise null, isConnected() false).  The code violates the
\* last part when a second loop, started through the bug of C2, has
\* connected in the meantime.
ExhaustionLeavesDisconnected ==
  [][\A l \in 1..MaxLoops :
       (l \in LoopIds /\ loops[l].phase = "connecting" /\ loops'[l].phase = "rejected")
         => /\ \A q \in Procs : (pc[q] = "awaitConn" /\ call[q].loop = l)
                 => (pc'[q] = "done" /\ call'[q].st = "rejected")
            /\ ~isConnecting'
            /\ connectionPromise' = 0
            /\ ~(isConnected' /\ readyState' = 1)
    ]_vars

\* C5: in state Connected connect() and initialize() return the existing
\* handle at once: no loop is started, the driver is not called and the
\* manager and the handle are left as they are.
ConnectedReturnsExisting ==
  [][\A p \in Procs :
       (CallsConnect(p) /\ isConnected /\ readyState = 1)
         => /\ pc'[p] = "done"
            /\ call'[p].op = "connect" /\ call'[p].st = "resolved"
            /\ call'[p].loop = 0 /\ call'[p].msg = "mongoose.connection"
            /\ loops' = loops
            /\ readyState' = readyState
            /\ UNCHANGED mgr
    ]_vars

\* C5 witness: a caller was handed the existing handle of a connected manager
ExistingHandleReturned ==
  \E p \in Procs :
    /\ pc[p] = "done" /\ call[p].op = "connect" /\ call[p].st = "resolved"
    /\ call[p].loop = 0
    /\ isConnected /\ readyState = 1

\* C6: when a connect() resolves and no disconnect() is under way,
\* isConnected() is true; a healthCheck() called while isConnected() is true
\* issues the ping, and a ping that succeeds gives healthy / 'successful'.
ConnectedThenHealthy ==
  [][/\ \A p \in Procs :
          (/\ pc[p] = "awaitConn" \/ CallsConnect(p)
           /\ pc'[p] = "done"
           /\ call'[p].op = "connect" /\ call'[p].st = "resolved"
           /\ \A q \in Procs : pc'[q] # "closing")
            => (isConnected' /\ readyState' = 1)
     /\ \A p \in Procs :
          (HealthCheck(p) /\ isConnected /\ readyState = 1)
            => (pc'[p] = "pinging" /\ call'[p].op = "health")
     /\ \A p \in Procs :
          PingSucceeds(p)
            => /\ pc'[p] = "done"
               /\ call'[p].st = "healthy"
               /\ call'[p].key = "ping" /\ call'[p].msg = "successful"
    ]_vars

\* C6 witness: one caller's connect() resolved through a loop and another's
\* health check came back healthy while the manager is connected
HealthyAfterConnect ==
  \E p, q \in Procs :
    /\ pc[p] = "done" /\ call[p].op = "connect" /\ call[p].st = "resolved"
    /\ call[p].loop # 0
    /\ pc[q] = "done" /\ call[q].op = "health" /\ call[q].st = "healthy"
    /\ isConnected /\ readyState = 1

\* C7 as claimed: once a disconnect() has completed, isConnected() is false
\* for as long as no connect() is called.
QuietMeansDisconnected == quiet => ~(isConnected /\ readyState = 1)

\* a disconnect() of p completes (resolves) in this step
DisconnectCompletes(p) ==
  \/ CloseSucceeds(p)
  \/ Disconnect(p) /\ readyState = 0

\* C7 amended: at the completion of a disconnect() isConnected() is false,
\* and while no connect() is called it stays false unless a retry loop that
\* was already in flight connects, the driver regains a lost connection by
\* itself or the close of a later disconnect() fails; a healthCheck() called
\* while isConnected() is false returns unhealthy with the not-connected
\* reason and issues no ping.
DisconnectedUntilReconnect ==
  [][/\ \A p \in Procs :
          DisconnectCompletes(p) => (quiet' /\ ~(isConnected' /\ readyState' = 1))
     /\ (quiet /\ quiet' /\ ~(isConnected /\ readyState = 1)
           /\ (isConnected' /\ readyState' = 1))
          => \/ \E l \in 1..MaxLoops : AttemptSucceeds(l)
             \/ Reconnected
             \/ \E p \in Procs, m \in ErrMsgs : CloseFails(p, m)
     /\ \A p \in Procs :
          (HealthCheck(p) /\ ~(isConnected /\ readyState = 1))
            => /\ pc'[p] = "done"
               /\ call'[p].op = "health" /\ call'[p].st = "unhealthy"
               /\ call'[p].key = "reason"
               /\ call'[p].msg = "Not connected to database"
               /\ call'[p].n = 0
    ]_vars

\* C7 witness: after a close that went through, a health check reported
\* not connected
UnhealthyAfterDisconnect ==
  \E p, q \in Procs :
    /\ pc[p] = "done" /\ call[p].op = "disconnect" /\ call[p].st = "resolved"
    /\ call[p].n = 1
    /\ quiet
    /\ pc[q] = "done" /\ call[q].op = "health" /\ call[q].key = "reason"

\* C8: disconnect() on a handle whose ready-state is disconnected completes
\* without error, does not call the driver's close and changes nothing of
\* the manager or the handle.
DisconnectWhenDisconnectedIsNoOp ==
  [][\A p \in Procs :
       (Disconnect(p) /\ readyState = 0)
         => /\ pc'[p] = "done"
            /\ call'[p].op = "disconnect" /\ call'[p].st = "resolved"
            /\ call'[p].n = 0
            /\ \A q \in Procs : pc'[q] = "closing" => pc[q] = "closing"
            /\ UNCHANGED <<isConnected, isConnecting, connectionPromise,
                           readyState, lost, listeners, loops>>
    ]_vars

\* C8 witness: a disconnect() that found the handle disconnected has returned
NoOpDisconnectReturned ==
  \E p \in Procs :
    /\ pc[p] = "done" /\ call[p].op = "disconnect" /\ call[p].st = "resolved"
    /\ call[p].n = 0
    /\ readyState = 0

\* C9: a health check never rejects: a finished one carries status healthy
\* or unhealthy, and an unhealthy one names its reason or the error caught.
HealthCheckAlwaysResolves ==
  \A p \in Procs :
    call[p].op = "health" =>
      /\ call[p].st \in {"pending", "healthy", "unhealthy"}
      /\ pc[p] = "done" => call[p].st \in {"healthy", "unhealthy"}
      /\ call[p].st = "pending" => pc[p] = "pinging"
      /\ call[p].st = "unhealthy" =>
           \/ call[p].key = "reason"
           \/ call[p].key = "error" /\ call[p].msg \in ErrMsgs

\* C9 witness: a health check whose ping threw has returned unhealthy
PingFailureCaptured ==
  \E p \in Procs :
    /\ pc[p] = "done" /\ call[p].op = "health" /\ call[p].st = "unhealthy"
    /\ call[p].key = "error"

\* C10: the result is healthy exactly when isConnected() read true and the
\* one ping issued succeeded; when it read false no ping is issued and the
\* result is unhealthy / not connected; a failed ping is not retried and
\* gives unhealthy with the message of the failure.
HealthyIffConnectedAndPinged ==
  /\ [](\A p \in Procs :
          (pc[p] = "done" /\ call[p].op = "health") =>
            /\ call[p].n <= 1
            /\ call[p].st = "healthy" <=> (call[p].seen /\ call[p].n = 1
                                             /\ call[p].key = "ping")
            /\ ~call[p].seen => (call[p].n = 0 /\ call[p].key = "reason"))
  /\ [][/\ \A p \in Procs :
             HealthCheck(p) =>
               IF isConnected /\ readyState = 1
                 THEN /\ pc'[p] = "pinging"
                      /\ call'[p].seen /\ call'[p].n = 1
                 ELSE /\ pc'[p] = "done"
                      /\ ~call'[p].seen /\ call'[p].n = 0
                      /\ call'[p].st = "unhealthy"
                      /\ call'[p].msg = "Not connected to database"
        /\ \A p \in Procs :
             PingSucceeds(p) => (call'[p].st = "healthy" /\ call'[p].n = call[p].n)
        /\ \A p \in Procs, m \in ErrMsgs :
             PingFails(p, m) =>
               /\ pc'[p] = "done"
               /\ call'[p].st = "unhealthy" /\ call'[p].key = "error"
               /\ call'[p].msg = m /\ call'[p].n = call[p].n
       ]_vars

\* C10 witness: health checks with both outcomes of an issued ping
BothPingOutcomes ==
  \E p, q \in Procs :
    /\ pc[p] = "done" /\ call[p].op = "health" /\ call[p].st = "healthy"
    /\ call[p].n = 1
    /\ pc[q] = "done" /\ call[q].op = "health" /\ call[q].st = "unhealthy"
    /\ call[q].n = 1 /\ call[q].msg \in ErrMsgs

DisconnectStep(p) ==
  \/ Disconnect(p)
  \/ CloseSucceeds(p)
  \/ \E m \in ErrMsgs : CloseFails(p, m)

\* C12: when every driver connect call and every sleep terminates, every
\* connect() waiting on a retry loop is eventually settled, resolved with
\* the handle or rejected; no step of a disconnect() touches a loop: a loop
\* that is trying or sleeping keeps its attempt count and goes on.
StartedLoopSettles ==
  /\ \A p \in Procs :
       (pc[p] = "awaitConn")
         ~> (pc[p] = "done" /\ call[p].op = "connect"
               /\ call[p].st \in {"resolved", "rejected"})
  /\ [][\A p \in Procs : DisconnectStep(p) => loops' = loops]_vars

\* C12 witness: a connect() was rejected after all its attempts although a
\* disconnect() by the other caller was under way or completed meanwhile
SettledDespiteDisconnect ==
  \E p, q \in Procs :
    /\ pc[p] = "done" /\ call[p].op = "connect" /\ call[p].st = "rejected"
    /\ call[p].n = MaxRetry
    /\ call[q].op = "disconnect" /\ call[q].n = 1

\* C13 as claimed: in every reachable state the internal flag isConnected is
\* true only when the ready-state of the live handle is connected.
FlagOnlyWhenHandleReady == isConnected => readyState = STATE_connected

\* C13 amended: isConnected(), the internal flag read together with the live
\* ready-state, is true only when the handle's ready-state is connected, and
\* connect() and healthCheck() rely on that reading only: the existing
\* handle is returned, and a ping issued, only on a connected handle.  The
\* flag by itself may be stale.
StatusOnlyWhenHandleReady ==
  /\ [](isMongoDBConnected => readyState = STATE_connected)
  /\ [][/\ \A p \in Procs :
             (CallsConnect(p) /\ pc'[p] = "done" /\ call'[p].loop = 0)
               => (readyState = STATE_connected /\ readyState' = readyState)
        /\ \A p \in Procs :
             (HealthCheck(p) /\ pc'[p] = "pinging") => readyState = STATE_connected
        /\ \A p \in Procs :
             (HealthCheck(p) /\ readyState # STATE_connected)
               => (pc'[p] = "done" /\ call'[p].st = "unhealthy")
       ]_vars

\* C13 witness: the flag is stale (true on a handle that is not connected)
\* and a health check made meanwhile reported not connected
StaleFlagMasked ==
  \E p \in Procs :
    /\ isConnected /\ readyState # STATE_connected
    /\ ~isMongoDBConnected
    /\ pc[p] = "done" /\ call[p].op = "health" /\ call[p].key = "reason"

ObserversAttachedOnce ==
  /\ listeners <= 1
  /\ shutdown.calls <= shutdown.signals

\* C17: on the termination signal the handler calls disconnect() and the
\* process exits only when that disconnect has settled: not while its close
\* is pending, with status 0 when the disconnect resolved (at once on a
\* disconnected handle, or when its close resolved) and with status 1 when
\* its close failed; nothing else makes the process exit.
ExitAfterDisconnectSettled ==
  /\ [](shutdown.exited => (shutdown.signals > 0 /\ shutdown.calls > 0))
  /\ [][/\ Sigint =>
             /\ shutdown'.calls > shutdown.calls
             /\ IF readyState = STATE_disconnected
                  THEN shutdown'.exited /\ shutdown'.status = 0
                         /\ shutdown'.closing = shutdown.closing
                  ELSE ~shutdown'.exited /\ shutdown'.closing > shutdown.closing
        /\ SigintCloseSucceeds =>
             (shutdown'.exited /\ shutdown'.status = 0
                /\ readyState' = STATE_disconnected /\ ~isConnected')
        /\ SigintCloseFails => (shutdown'.exited /\ shutdown'.status = 1)
        /\ (~shutdown.exited /\ shutdown'.exited) =>
             \/ Sigint /\ readyState = STATE_disconnected
             \/ shutdown.closing > 0 /\ (SigintCloseSucceeds \/ SigintCloseFails)
       ]_vars

\* C17 witness: the process has exited with status 1 after the close
\* requested by its SIGINT handler failed
ExitedWithFailure ==
  /\ shutdown.exited /\ shutdown.status = 1
  /\ shutdown.signals = 1

\* a 'connected' or 'reconnected' event is emitted in this step
EmitsConnected ==
  \/ \E l \in 1..MaxLoops : AttemptSucceeds(l)
  \/ Reconnected

\* a 'disconnected' event is emitted in this step
EmitsDisconnected ==
  \/ ConnectionLost
  \/ \E p \in Procs : CloseSucceeds(p)
  \/ \E p \in Procs, m \in ErrMsgs : CloseFails(p, m) /\ readyState' = STATE_disconnected

\* an 'error' event is emitted in this step
EmitsError ==
  \/ ErrorEvent
  \/ \E l \in 1..MaxLoops, m \in ErrMsgs : AttemptFails(l, m) /\ readyState = 2

CloseFailurePropagates ==
  /\ [](\A p \in Procs :
          call[p].op = "disconnect" =>
            /\ call[p].n <= 1
            /\ pc[p] = "closing" <=> call[p].st = "pending"
            /\ call[p].st = "pending" => call[p].n = 1
            /\ call[p].st = "rejected" => (call[p].key = "error" /\ call[p].msg \in ErrMsgs))
  /\ [][\A p \in Procs, m \in ErrMsgs :
          CloseFails(p, m) =>
            /\ pc'[p] = "done"
            /\ call'[p].op = "disconnect" /\ call'[p].st = "rejected"
            /\ call'[p].key = "error" /\ call'[p].msg = m
            /\ call'[p].n = call[p].n
            /\ \A q \in Procs : pc'[q] = "closing" => pc[q] = "closing"
       ]_vars

\* C18 witness: a disconnect() was rejected with the failure of its close
DisconnectRejected ==
  \E p \in Procs :
    /\ pc[p] = "done" /\ call[p].op = "disconnect" /\ call[p].st = "rejected"
    /\ call[p].n = 1 /\ call[p].msg \in ErrMsgs

\* C19: every call of the config resolver answers for the environment as
\* it is at that call: retry attempts 5 and delay 2000 in production mode,
\* 1 and 500 in testing mode, 3 and 1000 in development mode, with the mode
\* unset and in any other mode; the attempts are never below 1.
ResolvesPolicyOfCurrentMode ==
  [][GetConfig =>
       /\ env.NODE_ENV = <<"production">>
            => (resolved'.retryAttempts = 5 /\ resolved'.retryDelayMs = 2000)
       /\ env.NODE_ENV = <<"testing">>
            => (resolved'.retryAttempts = 1 /\ resolved'.retryDelayMs = 500)
       /\ env.NODE_ENV \in {<<>>, <<"development">>, <<"staging">>}
            => (resolved'.retryAttempts = 3 /\ resolved'.retryDelayMs = 1000)
       /\ resolved'.retryAttempts >= 1
    ]_vars

\* C19 witness: an unrecognised mode was resolved to the default policy
UnknownModeResolved ==
  /\ env.NODE_ENV = <<"staging">>
  /\ resolved # NoConfig
  /\ resolved.retryAttempts = 3 /\ resolved.retryDelayMs = 1000

\* the configured base database name, config.ts:67
BaseName(e) == Nullish(e.MONGODB_DATABASE, "boishakh_auth")

\* C20 as claimed: in testing mode without a test-database override the
\* resolved database is the configured base name followed by _test, for
\* every base name; with the override it is the override.
TestNameIsBaseWithSuffix ==
  [][(GetConfig /\ env.NODE_ENV = <<"testing">>) =>
       IF env.MONGODB_TEST_DATABASE = <<>>
         THEN resolved'.database = BaseName(env) \o "_test"
         ELSE resolved'.database = env.MONGODB_TEST_DATABASE[1]
    ]_vars

\* C20 amended: in testing mode without a test-database override the
\* resolved database is MONGODB_DATABASE as it is when that variable is set
\* (base "app" resolves to "app"), and the default base name followed by
\* _test, "boishakh_auth_test", when it is not set; with the override it is
\* the override.
TestNameSuffixOnlyOnDefault ==
  [][(GetConfig /\ env.NODE_ENV = <<"testing">>) =>
       IF env.MONGODB_TEST_DATABASE # <<>>
         THEN resolved'.database = env.MONGODB_TEST_DATABASE[1]
         ELSE IF env.MONGODB_DATABASE # <<>>
           THEN resolved'.database = env.MONGODB_DATABASE[1]
           ELSE resolved'.database = "boishakh_auth_test"
    ]_vars

\* C20 witness: testing mode, base name app, no override, resolved to app
ConfiguredNameKept ==
  /\ env.NODE_ENV = <<"testing">>
  /\ env.MONGODB_DATABASE = <<"app">>
  /\ env.MONGODB_TEST_DATABASE = <<>>
  /\ resolved.database = "app"
  /\ resolved.retryAttempts = 1

\* a URI without the one '/' it may end with
WithoutEndSlash(u) == IF EndsWithSlash(u) THEN SubSeq(u, 1, Len(u) - 1) ELSE u

\* the resolved database name under environment e
ResolvedName(e) == getConfigFromFile(e).database

\* C21: the connect target is the configured base URI and the resolved
\* database name with one '/' between them, whether the base URI ends with
\* '/' or not, and options.dbName is that database name; in testing mode
\* with MONGODB_URI = U, MONGODB_DATABASE = D and no test override the
\* target is U/D with dbName D.
TargetIsUriSlashName ==
  [][GetMongoDBConfig =>
       LET base == Nullish(env.MONGODB_URI, <<"mongodb://localhost:27017">>) IN
       /\ resolved'.uri = WithoutEndSlash(base) \o <<"/">> \o <<ResolvedName(env)>>
       /\ resolved'.options.dbName = ResolvedName(env)
       /\ (/\ env.NODE_ENV = <<"testing">>
           /\ env.MONGODB_URI # <<>>
           /\ env.MONGODB_DATABASE # <<>>
           /\ env.MONGODB_TEST_DATABASE = <<>>)
            => /\ resolved'.uri = WithoutEndSlash(env.MONGODB_URI[1])
                                    \o <<"/", env.MONGODB_DATABASE[1]>>
               /\ resolved'.options.dbName = env.MONGODB_DATABASE[1]
    ]_vars

\* C21 witness: a base URI ending with '/' was joined with the name app
SlashEndedUriJoined ==
  /\ resolved # NoConfig
  /\ env.MONGODB_URI = << <<"mongodb://db:27017", "/">> >>
  /\ resolved.uri = <<"mongodb://db:27017", "/", "app">>
  /\ resolved.options.dbName = "app"

\* C22: the options carry the credentials exactly when a username and a
\* password are both set and not empty; with one of them or none the
\* options have no auth entry, and the call returns a config all the same.
AuthIffBothCredentials ==
  [][GetMongoDBConfig =>
       LET both == /\ env.MONGODB_USERNAME \notin {<<>>, <<"">>}
                   /\ env.MONGODB_PASSWORD \notin {<<>>, <<"">>} IN
       /\ both => resolved'.options.auth =
                     <<[username |-> env.MONGODB_USERNAME[1],
                        password |-> env.MONGODB_PASSWORD[1]]>>
       /\ ~both => resolved'.options.auth = <<>>
       /\ resolved'.retryAttempts >= 1
       /\ resolved'.uri # <<>>
    ]_vars

\* C22 witness: a config without auth was returned with only the username set
AuthOmittedWithUsernameOnly ==
  /\ resolved # NoConfig
  /\ env.MONGODB_USERNAME = <<"user">>
  /\ env.MONGODB_PASSWORD \in {<<>>, <<"">>}
  /\ resolved.options.auth = <<>>

\* C23: the retry logic uses exponential backoff: in a loop, the wait before
\* each further attempt is longer than the wait before the attempt it
\* follows, not the same duration again.
WaitGrowsWithAttempt ==
  \A l \in LoopIds :
    (Running(l) /\ loops[l].phase = "sleeping" /\ loops[l].sleeps >= 1)
      => loops[l].timer > loops[l].waited

\* C24: GET /health answers 200 with status OK, the message Service is
\* healthy, the uptime and the deployment mode in every state of the
\* connection manager; the request changes nothing of the manager and starts
\* no health check.
HealthRouteIgnoresDatabase ==
  /\ [](Alive => ENABLED GetHealth)
  /\ [][GetHealth =>
          /\ reply'.statusCode = 200
          /\ reply'.body.status = "OK"
          /\ reply'.body.message = "Service is healthy"
          /\ reply'.body.uptime \in Uptimes
          /\ reply'.body.environment =
               (IF env.NODE_ENV = <<>> THEN "development" ELSE env.NODE_ENV[1])
          /\ UNCHANGED <<isConnected, isConnecting, connectionPromise, readyState,
                         loops, pc, call>>
       ]_vars

\* C24 witness: the route answered 200 OK and the manager is disconnected
\* after a connect() that failed
HealthyAnswerAfterFailedConnect ==
  /\ reply.of = "GET /health"
  /\ reply.statusCode = 200 /\ reply.body.status = "OK"
  /\ call["p1"].op = "connect" /\ call["p1"].st = "rejected"
  /\ ~isMongoDBConnected

\* C25: getConnectionInfo() changes none of the connected flag, isConnecting,
\* the pending promise and the handle; its isConnected field is what
\* isConnected() returns at that moment; and a call made while the result of
\* the call before it still describes the manager returns an equal result,
\* with the same model names.
ConnectionInfoIsPureRead ==
  [][GetConnectionInfo =>
       /\ UNCHANGED <<isConnected, isConnecting, connectionPromise, readyState,
                      lost, listeners, loops, pc, call, models>>
       /\ reply'.isConnected = isMongoDBConnected
       /\ reply'.readyState = readyState
       /\ reply'.models = models
       /\ (/\ reply.of = "getConnectionInfo"
           /\ reply.isConnected = isMongoDBConnected
           /\ reply.readyState = readyState
           /\ reply.models = models) => reply' = reply
    ]_vars

\* C25 witness: the info of a connected manager with the User model
ConnectedInfoRead ==
  /\ reply.of = "getConnectionInfo"
  /\ reply.isConnected /\ reply.readyState = STATE_connected
  /\ reply.models = {"User"}
  /\ isMongoDBConnected

\* the response without what may differ between two hidden errors
WithoutErrorId(r) ==
  [statusCode |-> r.statusCode, body |-> [r.body EXCEPT !.errorId = 0]]

\* the error is not operational, or its status code is 500 or more
Hidden(a) == ~a.isOperational \/ a.statusCode >= 500

\* C26: in production, an error that is not operational or has a status
\* code of 500 or more is answered with HTTP 500 and the body An internal
\* error occurred / INTERNAL_ERROR, so that the answers to two such errors
\* differ in the error id at most; an operational error with a status code
\* under 500 is answered with its own status code and message.
InternalErrorsHiddenInProduction ==
  [][(reply'.of = "errorHandler" /\ env.NODE_ENV = <<"production">>) =>
         LET a == reply'.apiError IN
         IF Hidden(a)
           THEN /\ reply'.statusCode = 500
                /\ reply'.body.message = "An internal error occurred"
                /\ reply'.body.type = "INTERNAL_ERROR"
                /\ reply'.body.statusCode = 500
                /\ reply'.body.details = <<>> /\ reply'.body.stack = <<>>
                /\ (reply.of = "errorHandler" /\ Hidden(reply.apiError))
                     => WithoutErrorId(reply') = WithoutErrorId(reply)
           ELSE /\ reply'.statusCode = a.statusCode
                /\ reply'.body.message = a.message
    ]_vars

\* C26 witness: in production an operational error with status 503 and a
\* message of its own was answered with the generic body
OperationalServerErrorHidden ==
  /\ reply.of = "errorHandler"
  /\ env.NODE_ENV = <<"production">>
  /\ reply.apiError.isOperational
  /\ reply.apiError.statusCode = 503
  /\ reply.apiError.message = "connect ECONNREFUSED 10.0.0.5"
  /\ reply.statusCode = 500
  /\ reply.body.message = "An internal error occurred"

\* C27: at every suspension point isConnecting is true exactly while a retry
\* loop is running, and then connectionPromise is not null and holds the
\* promise of that running loop, also after a disconnect() made while an
\* attempt is in flight.
ConnectingIffLoopRunning ==
  /\ isConnecting <=> (\E l \in LoopIds : Running(l))
  /\ isConnecting =>
       /\ connectionPromise # 0
       /\ connectionPromise \in LoopIds
       /\ Running(connectionPromise)

\* no connect() and no disconnect() is in progress
NoCallInProgress ==
  /\ \A p \in Procs : pc[p] \notin {"awaitConn", "closing"}
  /\ InFlight = {}

\* C28: whenever the handle's ready-state is connected and no connect() or
\* disconnect() is in progress, isConnected() returns true, so that a
\* connect() made then returns the existing handle and does not call the
\* driver's connect on the ready handle.
ReadyHandleIsReported ==
  /\ []((readyState = STATE_connected /\ NoCallInProgress) => isMongoDBConnected)
  /\ [][\A p \in Procs :
          (CallsConnect(p) /\ readyState = STATE_connected /\ NoCallInProgress)
            => /\ pc'[p] = "done"
               /\ call'[p] = ConnResolved(0, FALSE)
               /\ loops' = loops
               /\ readyState' = readyState
       ]_vars

\* C29: when the close fails inside disconnect(), the connected flag,
\* isConnecting and the pending promise keep their values.
FailedCloseChangesNothing ==
  [][\A p \in Procs, m \in ErrMsgs :
       CloseFails(p, m) => UNCHANGED <<isConnected, isConnecting, connectionPromise>>
    ]_vars

\* C29 as amended: when the close fails inside disconnect(), isConnecting and
\* the pending promise are after the failure what they were just before it,
\* and so is the connected flag unless the failed close left the handle
\* disconnected and a registered observer of 'disconnected' cleared it.
FailedCloseWritesNoManagerState ==
  [][\A p \in Procs, m \in ErrMsgs :
       CloseFails(p, m) =>
         /\ UNCHANGED <<isConnecting, connectionPromise>>
         /\ call'[p].op = "disconnect" /\ call'[p].st = "rejected"
         /\ isConnected' # isConnected =>
              /\ listeners > 0
              /\ readyState # STATE_disconnected
              /\ readyState' = STATE_disconnected
              /\ isConnected' = FALSE
    ]_vars

\* C29 witness: a disconnect() was rejected and the manager is connected as
\* it was before the call
ConnectedAfterFailedClose ==
  \E p \in Procs :
    /\ pc[p] = "done"
    /\ call[p].op = "disconnect" /\ call[p].st = "rejected"
    /\ isConnected /\ readyState = STATE_connected
    /\ ~isConnecting /\ connectionPromise = 0

\* a connect() call of p, with a config or without
CallsConnectAnyway(p) == CallsConnect(p) \/ ConnectNoConfig(p)

\* C30: the config passed to connect() is used only when the call starts a
\* retry loop, and the loop keeps that config through all its attempts; a
\* call that reuses the connection or joins the attempt in flight starts no
\* loop, changes the config of no loop, resolves no config from the
\* environment, and is given the existing handle or the promise of the loop
\* in flight.
ConfigUsedOnlyByStarter ==
  [][/\ \A p \in Procs :
          (CallsConnectAnyway(p)
             /\ (StateConnected \/ (isConnecting /\ connectionPromise # 0)))
            => /\ loops' = loops
               /\ resolved' = resolved
               /\ readyState' = readyState
               /\ IF StateConnected
                    THEN call'[p] = ConnResolved(0, FALSE)
                    ELSE call'[p].loop = connectionPromise /\ ~call'[p].starter
     /\ \A p \in Procs, n \in 1..MaxRetry :
          (Connect(p, n) /\ Len(loops') = Len(loops) + 1)
            => /\ loops'[Len(loops')].n = n
               /\ loops'[Len(loops')].delay = 500 * n
               /\ resolved' = resolved
     /\ \A p \in Procs :
          (ConnectNoConfig(p) /\ Len(loops') = Len(loops) + 1)
            => /\ loops'[Len(loops')].n =
                    (IF env.NODE_ENV = <<"testing">> THEN 1 ELSE 3)
               /\ loops'[Len(loops')].delay =
                    (IF env.NODE_ENV = <<"testing">> THEN 500 ELSE 1000)
               /\ resolved'.retryAttempts = loops'[Len(loops')].n
     /\ \A l \in LoopIds :
          (Running(l) /\ loops'[l].phase \in {"connecting", "sleeping"})
            => (loops'[l].n = loops[l].n /\ loops'[l].delay = loops[l].delay)
    ]_vars

\* C30 witness: the only loop was started without a config, a second caller
\* joined it, and both were given the handle when it connected
JoinedDefaultConfigLoop ==
  /\ Len(loops) = 1
  /\ resolved # NoConfig
  /\ call["p1"].op = "connect" /\ call["p1"].st = "resolved"
  /\ call["p2"].op = "connect" /\ call["p2"].st = "resolved"
  /\ call["p1"].loop = 1 /\ call["p2"].loop = 1

====
